---- MODULE Spec2Model ----
(***************************************************************************)
(* device_monitor: the data-access-and-validation core.  Two tables        *)
(* (devices, batteries), a generic repository, three validators, one       *)
(* service per entity and the request-scoped unit of work that wraps every *)
(* service call (get_db_session).                                          *)
(*                                                                         *)
(* A request is three steps: Begin (the session dependency is entered and  *)
(* yields the session), one handler step (the whole service call, with its *)
(* validators, its repository call and the flush), and the exit of the     *)
(* dependency (Commit or Rollback, then close).                            *)
(*                                                                         *)
(* Python values are wrapped: None is <<>>, a value v is <<v>>.            *)
(***************************************************************************)
EXTENDS Integers, FiniteSets, Sequences, TLC

VARIABLES
    devices,    \* committed rows of table "devices"
    batteries,  \* committed rows of table "batteries"
    issuedDev,  \* number of device ids generated so far
    issuedBat,  \* number of battery ids generated so far
    pc,         \* per request: "idle", "handler" (session yielded), "exit"
    session,    \* per request: "none", "open", "closed"
    tx,         \* per request: the session's uncommitted writes
    op,         \* per request: the service call the handler made
    out,        \* per request: what the handler returned or raised
    resp        \* per request: status the boundary reported for the last request

vars == <<devices, batteries, issuedDev, issuedBat, pc, session, tx, op, out, resp>>

(***************************************************************************)
(* Bounds of the model.                                                    *)
(***************************************************************************)
MaxDevices == 2
MaxBatteries == 2
RichDevices == 1
RichBatteries == 1
CapDevices == 1
CapBatteries == 6

(***************************************************************************)
(* Values.                                                                 *)
(***************************************************************************)
None == <<>>
Some(v) == <<v>>

HTTP_200_OK == 200
HTTP_400_BAD_REQUEST == 400
HTTP_404_NOT_FOUND == 404
HTTP_422_UNPROCESSABLE == 422
HTTP_500_INTERNAL == 500

MAX_BATTERIES_PER_DEVICE == 5

DeviceFields == {"name", "firmware_version", "status"}
BatteryCreateFields == {"name", "voltage", "residual_capacity", "lifespan"}
BatteryFields == BatteryCreateFields \cup {"device_id"}
NumericFields == {"voltage", "residual_capacity", "lifespan"}

Fields(kind) == IF kind = "devices" THEN DeviceFields ELSE BatteryFields

\* Columns declared without Optional are NOT NULL; only device_id is nullable.
Nullable(kind) == IF kind = "devices" THEN {} ELSE {"device_id"}

Restrict(f, S) == [x \in (DOMAIN f) \cap S |-> f[x]]

Ids(rows) == {r.id : r \in rows}

(***************************************************************************)
(* schemas.py: request bodies.  A body is a record of the keys the client  *)
(* sent; a schema validates it and model_dump() gives the field values the *)
(* repository receives.  Keys the schema does not declare are ignored      *)
(* (pydantic's default), so they never reach the dump.                     *)
(***************************************************************************)
Present(body, f) == f \in DOMAIN body /\ body[f] # None

\* NonNegativeFloat
NonNegative(body, f) == body[f][1] >= 0

\* DeviceCreate: name and firmware_version required, status defaults to False.
DeviceCreateValid(body) ==
    /\ Present(body, "name")
    /\ Present(body, "firmware_version")
    /\ "status" \in DOMAIN body => body["status"] # None

\* DeviceCreate(...).model_dump(): every declared field, defaults filled in.
DeviceCreateDump(body) ==
    [f \in DeviceFields |->
        IF f \in DOMAIN body THEN body[f] ELSE Some(FALSE)]

\* DeviceUpdate declares the same fields as DeviceCreate.
DeviceUpdateValid(body) == DeviceCreateValid(body)

\* DeviceUpdate(...).model_dump(exclude_unset=True): only the fields sent.
DeviceUpdateDump(body) == Restrict(body, DeviceFields)

\* BatteryCreate: four required fields, the three numbers non-negative.
BatteryCreateValid(body) ==
    /\ \A f \in BatteryCreateFields : Present(body, f)
    /\ \A f \in NumericFields : NonNegative(body, f)

\* BatteryCreate(...).model_dump(): the four declared fields; device_id is
\* not a field of BatteryCreate.
BatteryCreateDump(body) == Restrict(body, BatteryCreateFields)

\* BatteryUpdate: every field optional and None allowed; a number that is
\* given must be non-negative.
BatteryUpdateValid(body) ==
    \A f \in NumericFields : Present(body, f) => NonNegative(body, f)

\* Mutant: extra="allow", the keys the schema does not declare are dumped too.
BatteryUpdateDumpExtra(body) == body

\* Mutant: model_dump() without exclude_unset, None for the fields not sent.
BatteryUpdateDumpAll(body) ==
    [f \in BatteryFields |-> IF f \in DOMAIN body THEN body[f] ELSE None]

\* BatteryUpdate(...).model_dump(exclude_unset=True): only the fields sent.
BatteryUpdateDump(body) == Restrict(body, BatteryFields)

(***************************************************************************)
(* database/models.py: the constraints the tables carry.  A flush whose    *)
(* statements break one of them raises IntegrityError.                     *)
(***************************************************************************)
\* primary key (id) of both tables
PrimaryKeyOk(rows) == \A r, s \in rows : r.id = s.id => r = s

\* Mutant: the column is declared without unique=True.
DeviceNameNotUnique(rows) == TRUE

\* Device.name: mapped_column(unique=True)
DeviceNameUnique(rows) == \A r, s \in rows : r.name = s.name => r.id = s.id

\* Mutant: the columns are declared Optional, so NULL is stored.
NotNullOff(kind, rows) == TRUE

\* every column but Battery.device_id is NOT NULL
NotNullOk(kind, rows) ==
    \A r \in rows : \A f \in Fields(kind) \ Nullable(kind) : r[f] # None

\* Mutant: device_id is a plain column, without ForeignKey("devices.id").
ForeignKeyOff(db) == TRUE

\* Battery.device_id: ForeignKey("devices.id"), nullable
ForeignKeyOk(db) ==
    \A b \in db.batteries :
        b.device_id = None \/ b.device_id[1] \in Ids(db.devices)

IntegrityOk(db) ==
    /\ PrimaryKeyOk(db.devices)
    /\ PrimaryKeyOk(db.batteries)
    /\ DeviceNameUnique(db.devices)
    /\ NotNullOk("devices", db.devices)
    /\ NotNullOk("batteries", db.batteries)
    /\ ForeignKeyOk(db)

\* Device.batteries: relationship(lazy="selectin"), loaded with the device
DeviceBatteries(db, device) ==
    {b \in db.batteries : b.device_id = Some(device.id)}

\* Base.id: generated on creation, never an id generated before.
NewId(issued) == issued + 1

\* Device.status: mapped_column(default=False); no other column has a default
ColumnDefault(kind, f) ==
    IF kind = "devices" /\ f = "status" THEN Some(FALSE) ELSE None

\* self.model(**dump), as inserted: the columns given, the column default
\* for the others, the generated id.
ModelNew(kind, id, dump) ==
    [f \in {"id"} \cup Fields(kind) |->
        IF f = "id" THEN id
        ELSE IF f \in DOMAIN dump THEN dump[f] ELSE ColumnDefault(kind, f)]

(***************************************************************************)
(* crud.py: the repository.  Each operation takes the session's view db    *)
(* and gives [ok, db, obj]: ok is FALSE when the flush raised, db is the   *)
(* view the session then holds, obj the object returned.                   *)
(***************************************************************************)
With(db, kind, rows) == [db EXCEPT ![kind] = rows]

\* Mutant: the object is built and returned but never added to the session.
RepoCreateNotAdded(db, kind, id, dump) ==
    [ok |-> TRUE, db |-> db, obj |-> ModelNew(kind, id, dump)]

\* BaseRepository.create: add, flush, refresh, return
RepoCreate(db, kind, id, dump) ==
    LET obj == ModelNew(kind, id, dump)
        new == With(db, kind, db[kind] \cup {obj})
    IN  [ok |-> IntegrityOk(new), db |-> new, obj |-> obj]

\* BaseRepository.get_all
RepoGetAll(db, kind) == db[kind]

\* BaseRepository.get_by_id: scalar_one_or_none, here the set of matches
RepoGetById(db, kind, obj_id) == {r \in db[kind] : r.id = obj_id}

\* DeviceRepository.get_by_name
RepoGetByName(db, device_name) == {r \in db.devices : r.name = device_name}

\* Mutant: "if value:" guards the setattr, so None, 0 and False are skipped.
Truthy(f, v) ==
    /\ v # None
    /\ f \in NumericFields => v[1] # 0
    /\ f = "status" => v[1]

RepoUpdateTruthy(db, kind, db_obj, dump) ==
    LET obj == [f \in DOMAIN db_obj |->
                    IF f \in DOMAIN dump /\ Truthy(f, dump[f])
                    THEN dump[f] ELSE db_obj[f]]
        new == With(db, kind, (db[kind] \ {db_obj}) \cup {obj})
    IN  [ok |-> IntegrityOk(new), db |-> new, obj |-> obj]

\* BaseRepository.update: setattr for every field of the dump, flush, refresh
RepoUpdate(db, kind, db_obj, dump) ==
    LET obj == [f \in DOMAIN db_obj |->
                    IF f \in DOMAIN dump THEN dump[f] ELSE db_obj[f]]
        new == With(db, kind, (db[kind] \ {db_obj}) \cup {obj})
    IN  [ok |-> IntegrityOk(new), db |-> new, obj |-> obj]

\* Mutant: cascade="all, delete": the batteries of a removed device are
\* deleted with it.
RepoRemoveCascade(db, kind, db_obj) ==
    LET loaded == IF kind = "devices" THEN DeviceBatteries(db, db_obj) ELSE {}
        new == [devices |-> db.devices \ {db_obj},
                batteries |-> (db.batteries \ loaded) \ {db_obj}]
    IN  [ok |-> IntegrityOk(new), db |-> new, obj |-> db_obj]

\* Mutant: the object is returned but session.delete is never called.
RepoRemoveNotDeleted(db, kind, db_obj) ==
    [ok |-> TRUE, db |-> db, obj |-> db_obj]

\* BaseRepository.remove: delete, flush, return the object.  Deleting a
\* device first sets device_id to NULL on the batteries loaded in its
\* collection (no delete cascade; passive_deletes only spares unloaded ones).
RepoRemove(db, kind, db_obj) ==
    LET loaded == IF kind = "devices" THEN DeviceBatteries(db, db_obj) ELSE {}
        nulled == {[b EXCEPT !.device_id = None] : b \in loaded}
        bats   == (db.batteries \ loaded) \cup nulled
        new    == IF kind = "devices"
                  THEN [devices |-> db.devices \ {db_obj}, batteries |-> bats]
                  ELSE With(db, kind, db[kind] \ {db_obj})
    IN  [ok |-> IntegrityOk(new), db |-> new, obj |-> db_obj]

(***************************************************************************)
(* validators.py                                                           *)
(***************************************************************************)
\* check_object_exists: the object, or HTTPException(404)
check_object_exists(db, kind, obj_id) ==
    LET obj == RepoGetById(db, kind, obj_id)
    IN  IF obj = {} THEN [ok |-> FALSE, status |-> HTTP_404_NOT_FOUND, obj |-> {}]
        ELSE [ok |-> TRUE, status |-> HTTP_200_OK, obj |-> obj]

\* check_device_name_duplicate: HTTPException(400) when the name is taken
check_device_name_duplicate(db, name) ==
    IF RepoGetByName(db, name) # {}
    THEN [ok |-> FALSE, status |-> HTTP_400_BAD_REQUEST]
    ELSE [ok |-> TRUE, status |-> HTTP_200_OK]

\* check_limit_batteries_per_device: HTTPException(400) at the limit
check_limit_batteries_per_device(db, device) ==
    IF Cardinality(DeviceBatteries(db, device)) >= MAX_BATTERIES_PER_DEVICE
    THEN [ok |-> FALSE, status |-> HTTP_400_BAD_REQUEST]
    ELSE [ok |-> TRUE, status |-> HTTP_200_OK]


(***************************************************************************)
(* services.py: what a service call returns or raises, as                  *)
(* [raised, status, ret, db, calls]: ret is the set of objects returned,   *)
(* db the view the session holds when the call ends, calls the validators  *)
(* and the mutating repository methods the call ran, in order.             *)
(***************************************************************************)
Return(rows, db) ==
    [raised |-> FALSE, status |-> HTTP_200_OK, ret |-> rows, db |-> db,
     calls |-> <<>>]

Raise(status, db) ==
    [raised |-> TRUE, status |-> status, ret |-> {}, db |-> db,
     calls |-> <<>>]

\* the calls a service made, in the order of its statements
Called(names, r) == [r EXCEPT !.calls = names]

\* a repository call inside a service: its object, or the IntegrityError
\* of its flush, which no one catches before the boundary
Flushed(r) ==
    IF r.ok THEN Return({r.obj}, r.db) ELSE Raise(HTTP_500_INTERNAL, r.db)

TheOne(rows) == CHOOSE r \in rows : TRUE

BatteryService_get_all(db) == Return(RepoGetAll(db, "batteries"), db)

BatteryService_create(db, id, dump) ==
    Called(<<"create">>, Flushed(RepoCreate(db, "batteries", id, dump)))

BatteryService_get_by_id(db, id_) ==
    LET c == check_object_exists(db, "batteries", id_)
    IN  Called(<<"check_object_exists">>,
               IF c.ok THEN Return(c.obj, db) ELSE Raise(c.status, db))

BatteryService_update(db, id_, dump) ==
    LET c == check_object_exists(db, "batteries", id_)
    IN  IF c.ok
        THEN Called(<<"check_object_exists", "update">>,
                    Flushed(RepoUpdate(db, "batteries", TheOne(c.obj), dump)))
        ELSE Called(<<"check_object_exists">>, Raise(c.status, db))

BatteryService_remove(db, id_) ==
    LET c == check_object_exists(db, "batteries", id_)
    IN  IF c.ok
        THEN Called(<<"check_object_exists", "remove">>,
                    Flushed(RepoRemove(db, "batteries", TheOne(c.obj))))
        ELSE Called(<<"check_object_exists">>, Raise(c.status, db))

DeviceService_get_all(db) == Return(RepoGetAll(db, "devices"), db)

DeviceService_create(db, id, dump) ==
    Called(<<"create">>, Flushed(RepoCreate(db, "devices", id, dump)))

DeviceService_get_by_id(db, id_) ==
    LET c == check_object_exists(db, "devices", id_)
    IN  Called(<<"check_object_exists">>,
               IF c.ok THEN Return(c.obj, db) ELSE Raise(c.status, db))

\* Mutant: the repository's None is passed on instead of raising 404.
DeviceService_update_unchecked(db, id_, dump) ==
    LET obj == RepoGetById(db, "devices", id_)
    IN  IF obj = {} THEN Return({}, db)
        ELSE Flushed(RepoUpdate(db, "devices", TheOne(obj), dump))

DeviceService_update(db, id_, dump) ==
    LET c == check_object_exists(db, "devices", id_)
    IN  IF c.ok
        THEN Called(<<"check_object_exists", "update">>,
                    Flushed(RepoUpdate(db, "devices", TheOne(c.obj), dump)))
        ELSE Called(<<"check_object_exists">>, Raise(c.status, db))

DeviceService_remove(db, id_) ==
    LET c == check_object_exists(db, "devices", id_)
    IN  IF c.ok
        THEN Called(<<"check_object_exists", "remove">>,
                    Flushed(RepoRemove(db, "devices", TheOne(c.obj))))
        ELSE Called(<<"check_object_exists">>, Raise(c.status, db))

(***************************************************************************)
(* The session: its uncommitted writes over the committed tables.          *)
(***************************************************************************)
Kinds == {"devices", "batteries"}

Committed == [devices |-> devices, batteries |-> batteries]

EmptyTx == [put |-> [k \in Kinds |-> {}], del |-> [k \in Kinds |-> {}]]

WriteSet(old, new) ==
    [put |-> [k \in Kinds |-> new[k] \ old[k]],
     del |-> [k \in Kinds |-> Ids(old[k]) \ Ids(new[k])]]

Apply(db, w) ==
    [k \in Kinds |->
        {r \in db[k] : r.id \notin (w.del[k] \cup Ids(w.put[k]))} \cup w.put[k]]

\* what the statements of request p read
View(p) == Apply(Committed, tx[p])

NoOp == [name |-> "", id |-> 0, body |-> <<>>]
NoOut == [raised |-> FALSE, status |-> 0, ret |-> {}, calls |-> <<>>]

(***************************************************************************)
(* dependencies.py, get_db_session: entered before the handler, left after *)
(***************************************************************************)
\* async with sessionmaker() as session: ... yield session
Begin(p) ==
    /\ pc[p] = "idle"
    /\ pc' = [pc EXCEPT ![p] = "handler"]
    /\ session' = [session EXCEPT ![p] = "open"]
    /\ tx' = [tx EXCEPT ![p] = EmptyTx]
    /\ op' = [op EXCEPT ![p] = NoOp]
    /\ out' = [out EXCEPT ![p] = NoOut]
    /\ resp' = [resp EXCEPT ![p] = 0]
    /\ UNCHANGED <<devices, batteries, issuedDev, issuedBat>>

\* what every exit of the dependency does: finally: await session.close()
Close(p, status) ==
    /\ pc' = [pc EXCEPT ![p] = "idle"]
    /\ session' = [session EXCEPT ![p] = "closed"]
    /\ tx' = [tx EXCEPT ![p] = EmptyTx]
    /\ op' = [op EXCEPT ![p] = NoOp]
    /\ out' = [out EXCEPT ![p] = NoOut]
    /\ resp' = [resp EXCEPT ![p] = status]
    /\ UNCHANGED <<issuedDev, issuedBat>>

\* Mutant: the storage refuses a commit that would leave a device with
\* more batteries than the limit.
CommitSerialized(p) ==
    /\ pc[p] = "exit"
    /\ ~out[p].raised
    /\ LET new == Apply(Committed, tx[p])
           fits == \A d \in new.devices :
                      Cardinality(DeviceBatteries(new, d))
                          <= MAX_BATTERIES_PER_DEVICE
       IN  /\ devices' = IF fits THEN new.devices ELSE devices
           /\ batteries' = IF fits THEN new.batteries ELSE batteries
           /\ Close(p, IF fits THEN out[p].status ELSE HTTP_500_INTERNAL)

\* the handler returned: await session.commit()
Commit(p) ==
    /\ pc[p] = "exit"
    /\ ~out[p].raised
    /\ devices' = Apply(Committed, tx[p]).devices
    /\ batteries' = Apply(Committed, tx[p]).batteries
    /\ Close(p, out[p].status)

\* Mutant: the except branch commits what the session holds.
RollbackCommits(p) ==
    /\ pc[p] = "exit"
    /\ out[p].raised
    /\ devices' = Apply(Committed, tx[p]).devices
    /\ batteries' = Apply(Committed, tx[p]).batteries
    /\ Close(p, out[p].status)

\* the handler raised: except Exception: await session.rollback(); raise
Rollback(p) ==
    /\ pc[p] = "exit"
    /\ out[p].raised
    /\ UNCHANGED <<devices, batteries>>
    /\ Close(p, out[p].status)

(***************************************************************************)
(* routers: one handler step per request.  The body is validated by its    *)
(* schema (422 when it is not valid), then the service is called.          *)
(***************************************************************************)
Handled(p, name, id_, body, r) ==
    /\ pc[p] = "handler"
    /\ pc' = [pc EXCEPT ![p] = "exit"]
    /\ op' = [op EXCEPT ![p] = [name |-> name, id |-> id_, body |-> body]]
    /\ out' = [out EXCEPT ![p] =
                 [raised |-> r.raised, status |-> r.status, ret |-> r.ret,
                  calls |-> r.calls]]
    /\ tx' = [tx EXCEPT ![p] = WriteSet(Committed, r.db)]
    /\ UNCHANGED <<devices, batteries, session, resp>>

Invalid(p) == Raise(HTTP_422_UNPROCESSABLE, View(p))

get_batteries(p) ==
    /\ Handled(p, "get_batteries", 0, <<>>, BatteryService_get_all(View(p)))
    /\ UNCHANGED <<issuedDev, issuedBat>>

create_battery(p, body) ==
    /\ Handled(p, "create_battery", NewId(issuedBat), body,
               IF BatteryCreateValid(body)
               THEN BatteryService_create(View(p), NewId(issuedBat),
                                          BatteryCreateDump(body))
               ELSE Invalid(p))
    /\ issuedBat' = IF BatteryCreateValid(body) THEN NewId(issuedBat)
                    ELSE issuedBat
    /\ UNCHANGED issuedDev

get_battery(p, battery_id) ==
    /\ Handled(p, "get_battery", battery_id, <<>>,
               BatteryService_get_by_id(View(p), battery_id))
    /\ UNCHANGED <<issuedDev, issuedBat>>

update_battery(p, battery_id, body) ==
    /\ Handled(p, "update_battery", battery_id, body,
               IF BatteryUpdateValid(body)
               THEN BatteryService_update(View(p), battery_id,
                                          BatteryUpdateDump(body))
               ELSE Invalid(p))
    /\ UNCHANGED <<issuedDev, issuedBat>>

remove_battery(p, battery_id) ==
    /\ Handled(p, "remove_battery", battery_id, <<>>,
               BatteryService_remove(View(p), battery_id))
    /\ UNCHANGED <<issuedDev, issuedBat>>

get_devices(p) ==
    /\ Handled(p, "get_devices", 0, <<>>, DeviceService_get_all(View(p)))
    /\ UNCHANGED <<issuedDev, issuedBat>>

\* the unique index on devices.name: the INSERT waits while another open
\* transaction holds an uncommitted device of that name
NameLocked(p, body) ==
    /\ Present(body, "name")
    /\ \E q \in (DOMAIN tx) \ {p} :
          \E d \in tx[q].put.devices : d.name = body["name"]

create_device(p, body) ==
    /\ ~NameLocked(p, body)
    /\ Handled(p, "create_device", NewId(issuedDev), body,
               IF DeviceCreateValid(body)
               THEN DeviceService_create(View(p), NewId(issuedDev),
                                         DeviceCreateDump(body))
               ELSE Invalid(p))
    /\ issuedDev' = IF DeviceCreateValid(body) THEN NewId(issuedDev)
                    ELSE issuedDev
    /\ UNCHANGED issuedBat

get_device(p, device_id) ==
    /\ Handled(p, "get_device", device_id, <<>>,
               DeviceService_get_by_id(View(p), device_id))
    /\ UNCHANGED <<issuedDev, issuedBat>>

\* DeviceService.update and DeviceService.remove have no route; they are
\* called the way the battery routes call their service.
update_device(p, device_id, body) ==
    /\ Handled(p, "update_device", device_id, body,
               IF DeviceUpdateValid(body)
               THEN DeviceService_update(View(p), device_id,
                                         DeviceUpdateDump(body))
               ELSE Invalid(p))
    /\ UNCHANGED <<issuedDev, issuedBat>>

remove_device(p, device_id) ==
    /\ Handled(p, "remove_device", device_id, <<>>,
               DeviceService_remove(View(p), device_id))
    /\ UNCHANGED <<issuedDev, issuedBat>>

(***************************************************************************)
(* Inputs: the bodies a client can send over given value sets.             *)
(***************************************************************************)
EmptyBody == [x \in {} |-> None]

RECURSIVE BodiesOver(_, _)
BodiesOver(V, F) ==
    IF F = {} THEN {EmptyBody}
    ELSE LET f == CHOOSE x \in F : TRUE
             rest == BodiesOver(V, F \ {f})
         IN  rest \cup {(f :> v) @@ b : v \in V[f], b \in rest}

Bodies(V) == BodiesOver(V, DOMAIN V)

\* the empty body, and the bodies with every field but device_id given
WholeBodies(V) ==
    {EmptyBody} \cup
    {b \in Bodies(V) : (DOMAIN V) \ {"device_id"} \subseteq DOMAIN b}

\* two device names, so two devices can exist together
DeviceValues ==
    [name |-> {Some("sensor-1"), Some("sensor-2")},
     firmware_version |-> {Some("1.0")},
     status |-> {Some(FALSE), Some(TRUE)}]

\* one device name: at most one device exists at a time
OneDeviceValues ==
    [name |-> {Some("sensor-1")},
     firmware_version |-> {Some("1.0"), Some("2.0")},
     status |-> {Some(FALSE), Some(TRUE)}]

DeviceIdValues(maxDev) == {None} \cup {Some(d) : d \in 1..maxDev}

\* the battery of the spec's scenario, its association free
BatteryValues(maxDev) ==
    [name |-> {Some("cell-a")},
     voltage |-> {Some(3)},
     residual_capacity |-> {Some(2)},
     lifespan |-> {Some(500)},
     device_id |-> DeviceIdValues(maxDev)]

\* batteries whose name and voltage vary, zero included
RichBatteryValues(maxDev) ==
    [name |-> {Some("cell-a"), Some("cell-b")},
     voltage |-> {Some(0), Some(3)},
     residual_capacity |-> {Some(2)},
     lifespan |-> {Some(500)},
     device_id |-> DeviceIdValues(maxDev)]

\* Spec: devices in full, batteries by their association
U ==
    [requests |-> {1},
     maxDev |-> MaxDevices,
     maxBat |-> MaxBatteries,
     deviceBodies |-> Bodies(DeviceValues),
     batteryCreateBodies |-> WholeBodies(BatteryValues(MaxDevices)),
     batteryUpdateBodies |-> Bodies([device_id |-> DeviceIdValues(MaxDevices)])]

\* SpecBat: batteries in full, one device name
UBat ==
    [requests |-> {1},
     maxDev |-> RichDevices,
     maxBat |-> RichBatteries,
     deviceBodies |-> Bodies(OneDeviceValues),
     batteryCreateBodies |-> Bodies(RichBatteryValues(RichDevices)),
     batteryUpdateBodies |-> Bodies(RichBatteryValues(RichDevices))]

\* SpecCap: one device, batteries created and associated
UCap ==
    [requests |-> {1},
     maxDev |-> CapDevices,
     maxBat |-> CapBatteries,
     deviceBodies |-> WholeBodies(OneDeviceValues),
     batteryCreateBodies |-> WholeBodies(BatteryValues(CapDevices)),
     batteryUpdateBodies |-> Bodies([device_id |-> DeviceIdValues(CapDevices)])]

InitOver(u) ==
    /\ devices = {}
    /\ batteries = {}
    /\ issuedDev = 0
    /\ issuedBat = 0
    /\ pc = [p \in u.requests |-> "idle"]
    /\ session = [p \in u.requests |-> "none"]
    /\ tx = [p \in u.requests |-> EmptyTx]
    /\ op = [p \in u.requests |-> NoOp]
    /\ out = [p \in u.requests |-> NoOut]
    /\ resp = [p \in u.requests |-> 0]

NextOver(u) ==
    \E p \in u.requests :
        \/ Begin(p)
        \/ Commit(p)
        \/ Rollback(p)
        \/ get_batteries(p)
        \/ \E body \in u.batteryCreateBodies :
              issuedBat < u.maxBat /\ create_battery(p, body)
        \/ \E id_ \in 1..u.maxBat : get_battery(p, id_)
        \/ \E id_ \in 1..u.maxBat, body \in u.batteryUpdateBodies :
              update_battery(p, id_, body)
        \/ \E id_ \in 1..u.maxBat : remove_battery(p, id_)
        \/ get_devices(p)
        \/ \E body \in u.deviceBodies :
              issuedDev < u.maxDev /\ create_device(p, body)
        \/ \E id_ \in 1..u.maxDev : get_device(p, id_)
        \/ \E id_ \in 1..u.maxDev, body \in u.deviceBodies :
              update_device(p, id_, body)
        \/ \E id_ \in 1..u.maxDev : remove_device(p, id_)

Init == InitOver(U)
Next == NextOver(U)
Spec == Init /\ [][Next]_vars

InitBat == InitOver(UBat)
NextBat == NextOver(UBat)
SpecBat == InitBat /\ [][NextBat]_vars

\* the requests that create devices and create and associate batteries
NextCapOver(u) ==
    \E p \in u.requests :
        \/ Begin(p)
        \/ Commit(p)
        \/ Rollback(p)
        \/ \E body \in u.batteryCreateBodies :
              issuedBat < u.maxBat /\ create_battery(p, body)
        \/ \E id_ \in 1..u.maxBat, body \in u.batteryUpdateBodies :
              update_battery(p, id_, body)
        \/ \E body \in u.deviceBodies :
              issuedDev < u.maxDev /\ create_device(p, body)

InitCap == InitOver(UCap)
NextCap == NextCapOver(UCap)
SpecCap == InitCap /\ [][NextCap]_vars

\* the device and the battery of the spec's scenario
TheDevice == [name |-> Some("sensor-1"), firmware_version |-> Some("1.0")]
TheBattery ==
    [name |-> Some("cell-a"), voltage |-> Some(3),
     residual_capacity |-> Some(2), lifespan |-> Some(500)]

\* __main__: the application is served by several workers, so requests
\* run side by side, each on its own session
RacingRequests == {1, 2}

\* SpecRace: two requests at a time create and attach batteries
URace ==
    [requests |-> RacingRequests,
     maxDev |-> CapDevices,
     maxBat |-> CapBatteries,
     deviceBodies |-> {TheDevice},
     batteryCreateBodies |-> {TheBattery},
     batteryUpdateBodies |->
        {[device_id |-> v] : v \in DeviceIdValues(CapDevices) \ {None}}]

InitRace == InitOver(URace)
NextRace == NextCapOver(URace)
SpecRace == InitRace /\ [][NextRace]_vars

\* batteries whose numbers are absent, null, negative, zero or positive
NumericBatteryValues ==
    [name |-> {Some("cell-a")},
     voltage |-> {None, Some(-1), Some(0), Some(3)},
     residual_capacity |-> {None, Some(2)},
     lifespan |-> {Some(-1), Some(500)}]

\* SpecNum: batteries created and updated with any of those numbers
UNum ==
    [requests |-> {1},
     maxDev |-> CapDevices,
     maxBat |-> MaxBatteries,
     deviceBodies |-> {TheDevice},
     batteryCreateBodies |-> Bodies(NumericBatteryValues),
     batteryUpdateBodies |-> Bodies(NumericBatteryValues)]

InitNum == InitOver(UNum)
NextNum == NextCapOver(UNum)
SpecNum == InitNum /\ [][NextNum]_vars

\* SpecId: bodies that may carry an "id" key, which no schema declares
UId ==
    [requests |-> {1},
     maxDev |-> MaxDevices,
     maxBat |-> MaxBatteries,
     deviceBodies |->
        Bodies([name |-> {Some("sensor-1"), Some("sensor-2")},
                firmware_version |-> {Some("1.0")},
                id |-> 1..MaxDevices]),
     batteryCreateBodies |->
        {TheBattery} \cup {("id" :> i) @@ TheBattery : i \in 1..MaxBatteries},
     batteryUpdateBodies |->
        Bodies([voltage |-> {Some(0), Some(3)}, id |-> 1..MaxBatteries])]

InitId == InitOver(UId)
NextId == NextOver(UId)
SpecId == InitId /\ [][NextId]_vars

(***************************************************************************)
(* The claims.                                                             *)
(***************************************************************************)
Requests == DOMAIN pc

\* the batteries associated with the device of id d in the committed tables
Associated(d) == {b \in batteries : b.device_id = Some(d)}

\* C1 (as claimed): creating a device under a name a persisted device
\* already has fails with the Conflict condition, the client error (400) of
\* the name-uniqueness validator, and the persisted devices stay as they were.
DuplicateCreate(p) ==
    /\ pc[p] = "exit"
    /\ op[p].name = "create_device"
    /\ DeviceCreateValid(op[p].body)
    /\ \E d \in devices : d.name = op[p].body["name"]

C1_DuplicateNameConflict ==
    [][\A p \in Requests :
        DuplicateCreate(p)
        => /\ out[p].raised
           /\ out[p].status = HTTP_400_BAD_REQUEST
           /\ devices' = devices
      ]_vars

\* C2 (as claimed): associating a battery with a device that already has
\* exactly 5 associated batteries is rejected with CapacityExceeded (400);
\* with 4 it is accepted and the device then has 5.
C2_CapacityBoundary ==
    \A p \in Requests :
        ( pc[p] = "exit" /\ op[p].name \in {"create_battery", "update_battery"} )
        => \A d \in Ids(devices) :
             \A b \in tx[p].put.batteries :
               ( b.device_id = Some(d) /\ b.id \notin Ids(Associated(d)) )
               => /\ Cardinality(Associated(d)) = MAX_BATTERIES_PER_DEVICE
                     => out[p].raised /\ out[p].status = HTTP_400_BAD_REQUEST
                  /\ Cardinality(Associated(d)) = MAX_BATTERIES_PER_DEVICE - 1
                     => ~out[p].raised

\* C3 (as claimed): with requests run one at a time, every device has at
\* most 5 batteries whose device_id refers to it.
C3_AtMostFivePerDevice ==
    \A d \in Ids(devices) :
        Cardinality(Associated(d)) <= MAX_BATTERIES_PER_DEVICE

\* the table a handler works on, and the fields of its rows
BatteryCalls ==
    {"get_batteries", "create_battery", "get_battery", "update_battery",
     "remove_battery"}
KindOf(name) == IF name \in BatteryCalls THEN "batteries" ELSE "devices"
TableOf(name) == Committed[KindOf(name)]

\* the committed tables after the step
After == [devices |-> devices', batteries |-> batteries']

\* the service calls by id, as the handlers make them
GetById(db, kind, id_) ==
    IF kind = "batteries" THEN BatteryService_get_by_id(db, id_)
    ELSE DeviceService_get_by_id(db, id_)
Remove(db, kind, id_) ==
    IF kind = "batteries" THEN BatteryService_remove(db, id_)
    ELSE DeviceService_remove(db, id_)

\* the handler of request p has run and the dependency has not yet exited
Ran(p, names) == pc[p] = "exit" /\ op[p].name \in names

BodyValid(o) ==
    CASE o.name = "create_battery" -> BatteryCreateValid(o.body)
      [] o.name = "update_battery" -> BatteryUpdateValid(o.body)
      [] o.name = "create_device" -> DeviceCreateValid(o.body)
      [] o.name = "update_device" -> DeviceUpdateValid(o.body)
      [] OTHER -> TRUE

\* C4: getById, update and remove of either service, called with an id
\* that matches no persisted record of its entity type, fail with NotFound
\* (404), and the persisted devices and batteries are the same after the
\* request as before it.
MissingId(p) ==
    /\ Ran(p, {"get_battery", "update_battery", "remove_battery",
               "get_device", "update_device", "remove_device"})
    /\ BodyValid(op[p])
    /\ op[p].id \notin Ids(TableOf(op[p].name))

Updated(p) ==
    /\ Ran(p, {"update_battery", "update_device"})
    /\ ~out[p].raised

RemovesDevice(p) ==
    /\ Ran(p, {"remove_device"})
    /\ op[p].id \in Ids(devices)

C6_RemoveDeviceDetaches ==
    [][\A p \in Requests :
        RemovesDevice(p)
        => /\ ~out[p].raised
           /\ resp'[p] = HTTP_200_OK
           /\ devices' = {d \in devices : d.id # op[p].id}
           /\ batteries' =
                {IF b.device_id = Some(op[p].id)
                 THEN [b EXCEPT !.device_id = None] ELSE b : b \in batteries}
           /\ Cardinality(batteries') = Cardinality(batteries)
      ]_vars

C6_Witness ==
    \E p \in Requests :
        /\ RemovesDevice(p)
        /\ Cardinality(Associated(op[p].id)) >= 2

\* C7: create with a valid input (for a device, a name no persisted device
\* has) returns a record with a newly generated id, the fields of the input
\* as supplied and the defaults for the fields the creation schema does not
\* receive (device status FALSE, battery device_id None); getById on that id
\* after the request returns that record.
Creates(p) ==
    /\ Ran(p, {"create_battery", "create_device"})
    /\ BodyValid(op[p])
    /\ op[p].name = "create_device"
       => \A d \in devices : d.name # op[p].body["name"]

CreateFields(name) ==
    IF name = "create_battery" THEN BatteryCreateFields ELSE DeviceFields

C7_CreateThenGet ==
    [][\A p \in Requests :
        Creates(p)
        => LET kind == KindOf(op[p].name)
               B == op[p].body
           IN  /\ ~out[p].raised
               /\ \E N \in out[p].ret :
                    /\ out[p].ret = {N}
                    /\ N.id \notin Ids(TableOf(op[p].name))
                    /\ N.id = op[p].id
                    /\ \A f \in CreateFields(op[p].name) \cap DOMAIN B :
                          N[f] = B[f]
                    /\ ( kind = "devices" /\ "status" \notin DOMAIN B )
                       => N.status = Some(FALSE)
                    /\ kind = "batteries" => N.device_id = None
                    /\ ~GetById(After, kind, N.id).raised
                    /\ GetById(After, kind, N.id).ret = {N}
      ]_vars

\* a device created with no status, while a battery is persisted
C7_Witness ==
    \E p \in Requests :
        /\ Creates(p)
        /\ op[p].name = "create_device"
        /\ "status" \notin DOMAIN op[p].body
        /\ batteries # {}

\* C8 (as claimed): a battery created with a device_id in the creation
\* input is persisted associated with that device; created with none, its
\* device_id is None.
C8_CreateWithDevice ==
    \A p \in Requests :
        ( /\ Ran(p, {"create_battery"})
          /\ BatteryCreateValid(op[p].body) )
        => /\ ~out[p].raised
           /\ \A N \in out[p].ret :
                IF /\ Present(op[p].body, "device_id")
                   /\ op[p].body["device_id"][1] \in Ids(devices)
                THEN N.device_id = op[p].body["device_id"]
                ELSE N.device_id = None

\* C9: a successful remove(id) returns the record as persisted before the
\* call; after the request the record is absent from getAll, getById(id)
\* and another remove(id) fail with NotFound, and every other record of
\* that entity type is unchanged.
Removes(p) ==
    /\ Ran(p, {"remove_battery", "remove_device"})
    /\ op[p].id \in Ids(TableOf(op[p].name))

C9_RemoveReturnsAndDeletes ==
    [][\A p \in Requests :
        Removes(p)
        => LET kind == KindOf(op[p].name)
               T == TableOf(op[p].name)
           IN  /\ ~out[p].raised
               /\ out[p].ret = {r \in T : r.id = op[p].id}
               /\ Cardinality(out[p].ret) = 1
               /\ RepoGetAll(After, kind) = T \ out[p].ret
               /\ GetById(After, kind, op[p].id).status = HTTP_404_NOT_FOUND
               /\ Remove(After, kind, op[p].id).status = HTTP_404_NOT_FOUND
      ]_vars

\* a battery removed while another battery is persisted
C9_Witness ==
    \E p \in Requests :
        /\ Removes(p)
        /\ op[p].name = "remove_battery"
        /\ Cardinality(batteries) >= 2

\* C10: a request is one unit of work.  When the handler returned, its
\* writes are committed; when it raised (a validator's HTTPException or the
\* IntegrityError of a flush) the writes of the session are rolled back, the
\* persisted tables are those from before the request and the fault reaches
\* the boundary; either way the session is closed when the request ends.
C10_UnitOfWork ==
    [][\A p \in Requests :
        /\ pc[p] = "exit"
           => /\ pc'[p] = "idle"
              /\ session[p] = "open"
              /\ session'[p] = "closed"
              /\ resp'[p] = out[p].status
              /\ ~out[p].raised => After = View(p)
              /\ out[p].raised
                 => After = Committed /\ resp'[p] # HTTP_200_OK
        /\ pc'[p] = "idle" => session'[p] # "open"
      ]_vars

\* a flush failed: the session holds writes and the handler raised
C10_Witness ==
    \E p \in Requests :
        /\ pc[p] = "exit"
        /\ out[p].raised
        /\ out[p].status = HTTP_500_INTERNAL
        /\ tx[p] # EmptyTx

\* C11: after any sequence of device creates and device updates, an update
\* that renames a device to the name of another device included, no two
\* persisted devices have the same name.
C11_UniqueDeviceNames ==
    \A d, e \in devices : d.name = e.name => d = e

\* an update has tried to give a persisted device the name of another one
C11_Witness ==
    \E p \in Requests :
        /\ Ran(p, {"update_device"})
        /\ DeviceUpdateValid(op[p].body)
        /\ op[p].id \in Ids(devices)
        /\ \E e \in devices : e.id # op[p].id /\ e.name = op[p].body["name"]

\* the attach request p has made and not yet committed: the battery it
\* associates with the device of id d, not associated with it as committed
Attaching(p, d) ==
    IF Ran(p, {"update_battery"}) /\ ~out[p].raised
    THEN {b \in tx[p].put.batteries :
            b.device_id = Some(d) /\ b.id \notin Ids(Associated(d))}
    ELSE {}

\* C12: attach requests that run side by side are not serialized.  A
\* request that has attached a battery to a device commits whatever another
\* request has committed to that device since it read: the request answers
\* 200, the device has one battery more than before the commit (more than
\* the limit when it already held the limit), and the other requests go on
\* untouched.  So from two requests that each read 4 batteries on the
\* device, a device with 6 batteries follows.
C12_AttachesNotSerialized ==
    [][\A p \in Requests : \A d \in Ids(devices) :
        ( Attaching(p, d) # {} /\ pc'[p] = "idle" )
        => /\ resp'[p] = HTTP_200_OK
           /\ Associated(d)' = Associated(d) \cup Attaching(p, d)
           /\ Cardinality(Associated(d)') = Cardinality(Associated(d)) + 1
           /\ Cardinality(Associated(d)) >= MAX_BATTERIES_PER_DEVICE
              => Cardinality(Associated(d)') > MAX_BATTERIES_PER_DEVICE
           /\ \A q \in Requests \ {p} :
                 pc'[q] = pc[q] /\ tx'[q] = tx[q] /\ out'[q] = out[q]
      ]_vars

\* two requests have each attached a battery of their own to a device that
\* holds 4, neither has committed, and the capacity check passes on what
\* each of them read
C12_Witness ==
    \E p, q \in Requests : \E d \in devices :
        /\ p # q
        /\ Attaching(p, d.id) # {}
        /\ Attaching(q, d.id) # {}
        /\ Attaching(p, d.id) \cap Attaching(q, d.id) = {}
        /\ Cardinality(Associated(d.id)) = MAX_BATTERIES_PER_DEVICE - 1
        /\ check_limit_batteries_per_device(Committed, d).ok

\* the mutating repository methods, and the validators each mutating
\* service operation is specified to run
Mutating == {"create", "update", "remove"}

Specified(o) ==
    CASE o.name = "create_device" -> {"check_device_name_duplicate"}
      [] o.name = "update_battery" ->
            {"check_object_exists"} \cup
            ( IF Present(o.body, "device_id")
              THEN {"check_limit_batteries_per_device"} ELSE {} )
      [] o.name \in {"update_device", "remove_battery", "remove_device"} ->
            {"check_object_exists"}
      [] OTHER -> {}

\* C13 (as claimed): in every mutating service operation, each validator
\* the operation is specified to run has run before the first mutating
\* repository call, and an operation a validator failed (404, 400) has made
\* no mutating repository call.
C13_ValidateThenMutate ==
    \A p \in Requests :
        ( /\ Ran(p, {"create_battery", "update_battery", "remove_battery",
                     "create_device", "update_device", "remove_device"})
          /\ BodyValid(op[p]) )
        => LET c == out[p].calls
               m == {i \in DOMAIN c : c[i] \in Mutating}
           IN  /\ m # {}
                  => \A v \in Specified(op[p]) :
                        \E i \in DOMAIN c :
                           c[i] = v /\ \A j \in m : i < j
               /\ ( /\ out[p].raised
                    /\ out[p].status \in {HTTP_404_NOT_FOUND,
                                           HTTP_400_BAD_REQUEST} )
                  => m = {}

\* C14: whether an update overwrites a field depends on the field being in
\* the payload, not on its value.  After a successful update, a battery
\* whose payload gives device_id as null has no association, and one
\* whose payload omits device_id keeps the association it had; a voltage
\* given as 0 and a status given as false are the persisted values, and an
\* omitted voltage or status is left as it was.
C14_PresenceNotValue ==
    [][\A p \in Requests :
        Updated(p)
        => LET kind == KindOf(op[p].name)
               P == op[p].body
           IN  \A R \in TableOf(op[p].name) :
                 R.id = op[p].id
                 => \E N \in After[kind] :
                      /\ N.id = R.id
                      /\ kind = "batteries"
                         => /\ IF "device_id" \in DOMAIN P
                               THEN N.device_id = P["device_id"]
                               ELSE N.device_id = R.device_id
                            /\ IF "voltage" \in DOMAIN P
                               THEN N.voltage = P["voltage"]
                               ELSE N.voltage = R.voltage
                      /\ kind = "devices"
                         => IF "status" \in DOMAIN P
                            THEN N.status = P["status"]
                            ELSE N.status = R.status
      ]_vars

\* a payload that gives device_id as null and voltage as 0, for a battery
\* that is associated and has another voltage
C14_Witness ==
    \E p \in Requests :
        /\ Updated(p)
        /\ op[p].name = "update_battery"
        /\ {"device_id", "voltage"} \subseteq DOMAIN op[p].body
        /\ op[p].body["device_id"] = None
        /\ op[p].body["voltage"] = Some(0)
        /\ \E R \in batteries :
              /\ R.id = op[p].id
              /\ R.device_id # None
              /\ R.voltage # Some(0)

\* C15: after any sequence of battery creates and battery updates, updates
\* that give null for a number included, the voltage, residual_capacity and
\* lifespan of every persisted battery are values >= 0.
C15_NumbersNonNegative ==
    \A b \in batteries : \A f \in NumericFields :
        b[f] # None /\ b[f][1] >= 0

\* an update of a persisted battery has given null for its voltage, and
\* has raised
C15_Witness ==
    \E p \in Requests :
        /\ Ran(p, {"update_battery"})
        /\ op[p].id \in Ids(batteries)
        /\ BatteryUpdateValid(op[p].body)
        /\ "voltage" \in DOMAIN op[p].body
        /\ op[p].body["voltage"] = None
        /\ out[p].raised

\* the ids generated so far for the rows of a table
Issued(kind) == IF kind = "batteries" THEN 1..issuedBat ELSE 1..issuedDev
IssuedAfter(kind) ==
    IF kind = "batteries" THEN 1..issuedBat' ELSE 1..issuedDev'

C17_ReferentialIntegrity ==
    /\ \A b \in batteries :
          b.device_id # None => \E d \in devices : d.id = b.device_id[1]
    /\ \A b \in batteries :
          b.device_id # None
          => Cardinality({d \in devices :
                            b \in DeviceBatteries(Committed, d)}) = 1
    /\ \A d \in devices : \A b \in DeviceBatteries(Committed, d) :
          b \in batteries /\ b.device_id = Some(d.id)

\* an update has tried to associate a persisted battery with an id that
\* matches no device, while a device is persisted
C17_Witness ==
    \E p \in Requests :
        /\ Ran(p, {"update_battery"})
        /\ op[p].id \in Ids(batteries)
        /\ Present(op[p].body, "device_id")
        /\ op[p].body["device_id"][1] \notin Ids(devices)
        /\ devices # {}
        /\ out[p].raised

====
